---- MODULE Spec2Model ----
(***************************************************************************)
(* Model of marsha's update_state callback (core/api/base.py) and of the   *)
(* serializer that validates its payload (core/serializers.py).            *)
(*                                                                         *)
(* Strings the code inspects character by character (the S3 key) are       *)
(* sequences of one-character strings, so that KEY_REGEX is modelled by    *)
(* what it matches and captures.  A nullable value is a sequence of        *)
(* length 0 (None) or 1 (the value).                                       *)
(***************************************************************************)
EXTENDS Integers, Sequences, FiniteSets, TLC

VARIABLES store, sent, req, resp, old_upload_state, emitted, redelivered, handled,
          workers, objects, bulk

\* store, sent: the rows of the uploadable models and the signals sent;
\* req .. handled: the callback update_state handled last;
\* workers: the callbacks handled concurrently, statement by statement;
\* objects, bulk: the rows of a viewset and its last bulk_destroy request
vars == <<store, sent, req, resp, old_upload_state, emitted, redelivered, handled,
          workers, objects, bulk>>

(***************************************************************************)
(* Bounds                                                                  *)
(***************************************************************************)
\* number of callbacks the endpoint handles in one behaviour
MaxCallbacks == 2

\* number of callbacks handled concurrently
MaxWorkers == 2

\* number of ids in the body of a bulk_destroy request
MaxIds == 2

(***************************************************************************)
(* defaults.py: upload states                                              *)
(***************************************************************************)
PENDING == "pending"
PROCESSING == "processing"
READY == "ready"
ERROR == "error"

STATE_CHOICES == {PENDING, PROCESSING, READY, ERROR}

None == <<>>

NoState == "none"

Some(v) == <<v>>

(***************************************************************************)
(* Character strings                                                       *)
(***************************************************************************)
Rep(c, n) == [i \in 1..n |-> c]

Digits == {"0", "1", "2", "3", "4", "5", "6", "7", "8", "9"}

HexDigits == Digits \cup {"a", "b", "c", "d", "e", "f", "A", "B", "C", "D", "E", "F"}

LowerOrDash == {"a", "b", "c", "d", "e", "f", "g", "h", "i", "j", "k", "l", "m",
                "n", "o", "p", "q", "r", "s", "t", "u", "v", "w", "x", "y", "z", "-"}

\* s[from..to], empty when the range leaves the string
Slice(s, from, to) == IF from >= 1 /\ to <= Len(s) /\ from <= to THEN SubSeq(s, from, to) ELSE <<>>

CharAt(s, p) == IF p >= 1 /\ p <= Len(s) THEN s[p] ELSE ""

\* the UUID whose hexadecimal digits are all c
UUIDOf(c) == Rep(c, 8) \o <<"-">> \o Rep(c, 4) \o <<"-">> \o Rep(c, 4) \o <<"-">> \o Rep(c, 4) \o <<"-">> \o Rep(c, 12)

VIDEO == <<"v", "i", "d", "e", "o">>
THUMBNAIL == <<"t", "h", "u", "m", "b", "n", "a", "i", "l">>
TIMEDTEXTTRACK == <<"t", "i", "m", "e", "d", "t", "e", "x", "t", "t", "r", "a", "c", "k">>
DOCUMENT == <<"d", "o", "c", "u", "m", "e", "n", "t">>

(***************************************************************************)
(* serializers.py: KEY_PATTERN                                             *)
(***************************************************************************)
\* [0-9A-Fa-f]{8}-[0-9A-Fa-f]{4}-[0-9A-Fa-f]{4}-[0-9A-Fa-f]{4}-[0-9A-Fa-f]{12} at s[p..p+35]
UUID_REGEX(s, p) ==
    /\ p >= 1
    /\ p + 35 <= Len(s)
    /\ \A i \in 0..35 : IF i \in {8, 13, 18, 23} THEN s[p + i] = "-" ELSE s[p + i] \in HexDigits

\* TimedTextTrack.MODE_CHOICES: subtitle, transcript, closed captioning
TIMED_TEXT_EXTENSIONS == {<<"s", "t">>, <<"t", "s">>, <<"c", "c">>}

\* the alternatives of the model_name group
KEY_MODEL_NAMES == {VIDEO, THUMBNAIL, TIMEDTEXTTRACK}

\* (_[a-z-]{2,10}_(st|ts|cc))?$ against the rest of the key after the stamp
KEY_SUFFIX(rest) ==
    \/ rest = <<>>
    \/ \E n \in 2..10 :
          /\ Len(rest) = n + 4
          /\ rest[1] = "_"
          /\ \A i \in 2..(n + 1) : rest[i] \in LowerOrDash
          /\ rest[n + 2] = "_"
          /\ SubSeq(rest, n + 3, n + 4) \in TIMED_TEXT_EXTENSIONS

NoMatch == [matched |-> FALSE, model_name |-> <<>>, object_id |-> <<>>, stamp |-> <<>>]

\* KEY_REGEX.match(key): the named groups of the match, or no match
match(key) ==
    IF ~(UUID_REGEX(key, 1) /\ CharAt(key, 37) = "/") THEN NoMatch
    ELSE LET names == {n \in KEY_MODEL_NAMES : Slice(key, 38, 37 + Len(n)) = n /\ CharAt(key, 38 + Len(n)) = "/"}
         IN  IF names = {} THEN NoMatch
             ELSE LET name == CHOOSE n \in names : TRUE
                      q == 38 + Len(name)
                  IN  IF /\ UUID_REGEX(key, q + 1)
                         /\ CharAt(key, q + 37) = "/"
                         /\ q + 47 <= Len(key)
                         /\ \A i \in (q + 38)..(q + 47) : key[i] \in Digits
                         /\ KEY_SUFFIX(SubSeq(key, q + 48, Len(key)))
                      THEN [matched |-> TRUE,
                            model_name |-> name,
                            object_id |-> SubSeq(key, q + 1, q + 36),
                            stamp |-> SubSeq(key, q + 38, q + 47)]
                      ELSE NoMatch

U1 == UUIDOf("1")
U2 == UUIDOf("2")

Stamp0 == <<"1", "6", "2", "0", "0", "0", "0", "0", "0", "0">>
Stamp1 == <<"1", "6", "2", "0", "0", "0", "0", "0", "0", "1">>

\* {owner_uuid}/{model_name}/{object_id}/{stamp}
BuildKey(owner, model_name, object_id, stamp) ==
    owner \o <<"/">> \o model_name \o <<"/">> \o object_id \o <<"/">> \o stamp

Keys ==
    { BuildKey(U1, VIDEO, U2, Stamp0),
      BuildKey(U1, VIDEO, U2, Stamp1),
      BuildKey(U1, TIMEDTEXTTRACK, U2, Stamp1) \o <<"_", "f", "r", "_", "c", "c">>,
      BuildKey(U1, THUMBNAIL, U2, Stamp0),
      BuildKey(U1, DOCUMENT, U2, Stamp0),
      BuildKey(U1, VIDEO, U2, SubSeq(Stamp0, 1, 9)),
      BuildKey(U1, VIDEO, UUIDOf("g"), Stamp0) }

\* KEY_REGEX.match over the keys the callbacks carry, evaluated once per key
KEY_REGEX == [k \in Keys |-> match(k)]

(***************************************************************************)
(* utils/time_utils.py: to_datetime                                        *)
(***************************************************************************)
DigitValue(c) == CASE c = "0" -> 0 [] c = "1" -> 1 [] c = "2" -> 2 [] c = "3" -> 3 [] c = "4" -> 4
                   [] c = "5" -> 5 [] c = "6" -> 6 [] c = "7" -> 7 [] c = "8" -> 8 [] c = "9" -> 9

RECURSIVE DecimalValue(_)
DecimalValue(s) == IF s = <<>> THEN 0 ELSE 10 * DecimalValue(SubSeq(s, 1, Len(s) - 1)) + DigitValue(s[Len(s)])

\* the datetime of a Unix timestamp given in decimal, as seconds since the epoch
to_datetime(stamp) == DecimalValue(stamp)

(***************************************************************************)
(* serializers.py: UpdateStateSerializer                                   *)
(***************************************************************************)
\* dict.get(name): the value, or None when the dict has no such entry
Get(d, name) == IF name \in DOMAIN d THEN Some(d[name]) ELSE None

\* key = serializers.RegexField(KEY_REGEX)
ValidKey(key) == KEY_REGEX[key].matched

\* a state field that accepts every upload state
ValidState_AnyChoice(state) == state \in STATE_CHOICES

\* the choices of the state field
UpdateStateChoices == {c \in STATE_CHOICES : c \in {PROCESSING, READY, ERROR}}

\* state = serializers.ChoiceField(...)
ValidState(state) == state \in UpdateStateChoices

SignatureMaxLength == 200

\* signature = serializers.CharField(max_length=200): required and not blank
ValidSignatureField(signature) ==
    /\ signature # None
    /\ signature[1] >= 1
    /\ signature[1] <= SignatureMaxLength

\* a serializer without the state field
is_valid_NoState(data) ==
    /\ ValidKey(data.key)
    /\ ValidSignatureField(data.signature)

\* serializer.is_valid()
is_valid(data) ==
    /\ ValidKey(data.key)
    /\ ValidState(data.state)
    /\ ValidSignatureField(data.signature)

\* key elements whose uploaded_on drops the last digit of the stamp
get_key_elements_ShortStamp(key) ==
    LET elements == KEY_REGEX[key]
    IN  [model_name |-> elements.model_name,
         object_id |-> elements.object_id,
         stamp |-> elements.stamp,
         uploaded_on |-> to_datetime(SubSeq(elements.stamp, 1, 9))]

\* UpdateStateSerializer.get_key_elements
get_key_elements(key) ==
    LET elements == KEY_REGEX[key]
    IN  [model_name |-> elements.model_name,
         object_id |-> elements.object_id,
         stamp |-> elements.stamp,
         uploaded_on |-> to_datetime(elements.stamp)]

(***************************************************************************)
(* utils/api_utils.py and models                                           *)
(***************************************************************************)
\* settings.UPDATE_STATE_SHARED_SECRETS, each secret named by who holds it
SHARED_SECRETS == {"current", "previous"}

\* validate_signature: the header is the signature of the body under some secret
validate_signature(header) == header # None /\ header[1] \in SHARED_SECRETS

\* the S3 identifiers of the uploadable models
UploadableModels == {VIDEO, THUMBNAIL, TIMEDTEXTTRACK, DOCUMENT}

\* get_uploadable_models_s3_mapping(): the model of each S3 identifier, a
\* model being named by its identifier
model_from_s3_identifier == [n \in UploadableModels |-> n]

\* hasattr(model, "extension")
HasExtension(model) == model \in {TIMEDTEXTTRACK, DOCUMENT}

\* model.update_upload_state(upload_state, uploaded_on, **extra_parameters)
update_upload_state(model, object_instance, upload_state, uploaded_on, extra_parameters) ==
    [upload_state |-> upload_state,
     uploaded_on |-> IF uploaded_on # None THEN uploaded_on ELSE object_instance.uploaded_on,
     extension |-> IF HasExtension(model) /\ "extension" \in DOMAIN extra_parameters
                   THEN extra_parameters.extension
                   ELSE object_instance.extension]

(***************************************************************************)
(* The callbacks the endpoint receives                                     *)
(***************************************************************************)
Requests ==
    [key : Keys,
     state : STATE_CHOICES,
     signature : {None, Some(64), Some(201)},
     header : {None, Some("current"), Some("intruder")},
     extraParameters : {<<>>, [extension |-> Some("vtt")]}]

NoRequest == [key |-> <<>>, state |-> NoState, signature |-> None, header |-> None, extraParameters |-> <<>>]

(***************************************************************************)
(* api/base.py: update_state                                               *)
(***************************************************************************)
\* early returns that skip the check of the signature
EarlyReturn_NoSignatureCheck(r) == IF ~is_valid(r) THEN 400 ELSE 0

\* the early returns: 400 when the payload is invalid, then 403 when the
\* signature is, 0 when the request goes on
EarlyReturn(r) ==
    IF ~is_valid(r) THEN 400
    ELSE IF ~validate_signature(r.header) THEN 403
    ELSE 0

\* serializer.validated_data["extraParameters"].  UpdateStateSerializer as
\* serializers.py declares it has the fields key, state and signature and no
\* extraParameters field; the handler and the description of the endpoint
\* take the payload's extraParameters map, and so does the model.
ValidatedExtraParameters(r) == r.extraParameters

\* extra_parameters, with the extension of the key added when none was sent
ExtraParameters(r, model, key_elements) ==
    IF r.state = READY /\ HasExtension(model) /\ "extension" \notin DOMAIN ValidatedExtraParameters(r)
    THEN [extension |-> Get(key_elements, "extension")]
    ELSE ValidatedExtraParameters(r)

\* a lookup by object_id alone, in the rows of every model
ObjectsGet_AnyModel(db, model, object_id) ==
    LET rows == {k \in DOMAIN db : k[2] = object_id}
    IN  IF rows = {} THEN None ELSE Some(db[CHOOSE k \in rows : TRUE])

\* model.objects.get(id=object_id): the row, or None for model.DoesNotExist
ObjectsGet(db, model, object_id) ==
    IF <<model, object_id>> \in DOMAIN db THEN Some(db[<<model, object_id>>]) ELSE None

\* an uploaded_on argument that is never passed
UploadedOnArg_Never(new_upload_state, key_elements) == None

\* an uploaded_on argument passed for every state
UploadedOnArg_Always(new_upload_state, key_elements) == Get(key_elements, "uploaded_on")

\* the uploaded_on argument of update_upload_state
UploadedOnArg(new_upload_state, key_elements) ==
    IF new_upload_state = READY THEN Get(key_elements, "uploaded_on") ELSE None

\* a signal sent on every change of state
ShouldSignal_AnyChange(old, new) == old # new

\* a signal sent on every READY callback
ShouldSignal_EveryReady(old, new) == new = READY

\* the condition under which signal_object_uploaded is sent
ShouldSignal(old, new) == old # new /\ new = READY

Response(status, body) == [status |-> status, body |-> body]

update_state(r) ==
    /\ handled < MaxCallbacks
    /\ handled' = handled + 1
    /\ req' = r
    /\ redelivered' = (r = req)
    /\ UNCHANGED <<workers, objects, bulk>>
    /\ IF EarlyReturn(r) # 0
       THEN /\ resp' = Response(EarlyReturn(r), IF EarlyReturn(r) = 400 THEN "errors" ELSE "Forbidden")
            /\ old_upload_state' = NoState
            /\ emitted' = 0
            /\ UNCHANGED <<store, sent>>
       ELSE LET key_elements == get_key_elements(r.key)
                model == model_from_s3_identifier[key_elements.model_name]
                id == <<model, key_elements.object_id>>
                extra_parameters == ExtraParameters(r, model, key_elements)
                found == ObjectsGet(store, model, key_elements.object_id)
            IN  IF found = None
                THEN /\ resp' = Response(404, "success: false")
                     /\ old_upload_state' = NoState
                     /\ emitted' = 0
                     /\ UNCHANGED <<store, sent>>
                ELSE LET object_instance == found[1]
                         old == object_instance.upload_state
                         new == r.state
                     IN  /\ old_upload_state' = old
                         /\ store' = [store EXCEPT ![id] =
                                        update_upload_state(model, object_instance, new,
                                                            UploadedOnArg(new, key_elements),
                                                            extra_parameters)]
                         /\ IF ShouldSignal(old, new)
                            THEN sent' = Append(sent, id) /\ emitted' = 1
                            ELSE sent' = sent /\ emitted' = 0
                         /\ resp' = Response(200, "success: true")

\* no bulk_destroy request yet
NoBulk == [ids |-> <<>>, status |-> 0, forbidden_ids |-> <<>>]

\* a row as the upload policy creates it
NewObject == [upload_state |-> PENDING, uploaded_on |-> None, extension |-> None]

Init ==
    /\ store = (<<VIDEO, U2>> :> NewObject) @@ (<<TIMEDTEXTTRACK, U2>> :> NewObject) @@ (<<DOCUMENT, U2>> :> NewObject)
    /\ sent = <<>>
    /\ req = NoRequest
    /\ resp = Response(0, "")
    /\ old_upload_state = NoState
    /\ emitted = 0
    /\ redelivered = FALSE
    /\ handled = 0
    /\ workers = <<>>
    /\ objects = {}
    /\ bulk = NoBulk

Next == \E r \in Requests : update_state(r)

Spec == Init /\ [][Next]_vars

(***************************************************************************)
(* api/base.py: update_state, statement by statement, for callbacks that   *)
(* are handled at the same time.  The handler takes no lock and opens no   *)
(* transaction: the SELECT of model.objects.get, the UPDATE of save() and  *)
(* the signal are separate steps that callbacks interleave.                *)
(***************************************************************************)
Workers == 1..MaxWorkers

ReadyCallback ==
    [key |-> BuildKey(U1, VIDEO, U2, Stamp0), state |-> READY, signature |-> Some(64),
     header |-> Some("current"), extraParameters |-> <<>>]

\* the callbacks the concurrent workers handle
StepRequests ==
    { ReadyCallback,
      [ReadyCallback EXCEPT !.state = ERROR],
      [ReadyCallback EXCEPT !.header = Some("intruder")],
      [ReadyCallback EXCEPT !.key = BuildKey(U1, THUMBNAIL, U2, Stamp0)],
      [ReadyCallback EXCEPT !.key = BuildKey(U1, VIDEO, U2, SubSeq(Stamp0, 1, 9))] }

NewWorker(r) ==
    [req |-> r, pc |-> "validate", object_instance |-> None, old_upload_state |-> NoState,
     saved |-> FALSE, signalled |-> FALSE, status |-> 0]

InitSteps ==
    /\ store = (<<VIDEO, U2>> :> NewObject) @@ (<<TIMEDTEXTTRACK, U2>> :> NewObject) @@ (<<DOCUMENT, U2>> :> NewObject)
    /\ sent = <<>>
    /\ workers \in [Workers -> {NewWorker(r) : r \in StepRequests}]
    /\ req = NoRequest
    /\ resp = Response(0, "")
    /\ old_upload_state = NoState
    /\ emitted = 0
    /\ redelivered = FALSE
    /\ handled = 0
    /\ objects = {}
    /\ bulk = NoBulk

StepsFrame == UNCHANGED <<req, resp, old_upload_state, emitted, redelivered, handled, objects, bulk>>

\* serializer.is_valid() and validate_signature
Validate(w) ==
    /\ workers[w].pc = "validate"
    /\ workers' = [workers EXCEPT ![w] =
                     IF EarlyReturn(workers[w].req) # 0
                     THEN [@ EXCEPT !.pc = "done", !.status = EarlyReturn(workers[w].req)]
                     ELSE [@ EXCEPT !.pc = "get"]]
    /\ UNCHANGED <<store, sent>>
    /\ StepsFrame

\* model.objects.get(id=...) and the read of old_upload_state
GetObject(w) ==
    /\ workers[w].pc = "get"
    /\ LET key_elements == get_key_elements(workers[w].req.key)
           model == model_from_s3_identifier[key_elements.model_name]
           found == ObjectsGet(store, model, key_elements.object_id)
       IN  workers' = [workers EXCEPT ![w] =
                         IF found = None
                         THEN [@ EXCEPT !.pc = "done", !.status = 404]
                         ELSE [@ EXCEPT !.pc = "update", !.object_instance = found,
                                        !.old_upload_state = found[1].upload_state]]
    /\ UNCHANGED <<store, sent>>
    /\ StepsFrame

\* object_instance.update_upload_state(...), which saves the instance
UpdateUploadState(w) ==
    /\ workers[w].pc = "update"
    /\ LET r == workers[w].req
           key_elements == get_key_elements(r.key)
           model == model_from_s3_identifier[key_elements.model_name]
           id == <<model, key_elements.object_id>>
           updated == update_upload_state(model, workers[w].object_instance[1], r.state,
                                          UploadedOnArg(r.state, key_elements),
                                          ExtraParameters(r, model, key_elements))
       IN  /\ store' = [store EXCEPT ![id] = updated]
           /\ workers' = [workers EXCEPT ![w] =
                            [@ EXCEPT !.pc = "signal", !.object_instance = Some(updated), !.saved = TRUE]]
    /\ UNCHANGED sent
    /\ StepsFrame

\* signal_object_uploaded.send(...) when the upload is finished, and the response
SendSignal(w) ==
    /\ workers[w].pc = "signal"
    /\ LET r == workers[w].req
           key_elements == get_key_elements(r.key)
           id == <<model_from_s3_identifier[key_elements.model_name], key_elements.object_id>>
           signal == ShouldSignal(workers[w].old_upload_state, r.state)
       IN  /\ sent' = IF signal THEN Append(sent, id) ELSE sent
           /\ workers' = [workers EXCEPT ![w] =
                            [@ EXCEPT !.pc = "done", !.status = 200, !.signalled = signal]]
    /\ UNCHANGED store
    /\ StepsFrame

NextSteps == \E w \in Workers : Validate(w) \/ GetObject(w) \/ UpdateUploadState(w) \/ SendSignal(w)

SpecSteps == InitSteps /\ [][NextSteps]_vars

(***************************************************************************)
(* api/base.py: BulkDestroyModelMixin.bulk_destroy.  Primary keys are      *)
(* UUIDs (migrations/0027: id = models.UUIDField(primary_key=True)); a     *)
(* primary key is represented by str(pk), its lower-case spelling.         *)
(***************************************************************************)
LowerCase(c) ==
    CASE c = "A" -> "a" [] c = "B" -> "b" [] c = "C" -> "c" [] c = "D" -> "d"
      [] c = "E" -> "e" [] c = "F" -> "f" [] OTHER -> c

\* UUIDField.to_python(value), for the pk__in lookup: uuid.UUID(hex=value)
\* reads the hexadecimal digits in either case
to_python(value) == [i \in 1..Len(value) |-> LowerCase(value[i])]

\* str(x) of a primary key
str(pk) == pk

PkA == UUIDOf("a")
PkB == UUIDOf("b")
PkC == UUIDOf("c")

\* the ids a request can carry: rows of the caller (also spelled in upper
\* case), a row of somebody else, an id of no row
RequestIds == {UUIDOf("a"), UUIDOf("A"), UUIDOf("b"), UUIDOf("c"), UUIDOf("d")}

\* self.get_queryset(): the rows the caller may act on
get_queryset(rows) == rows \cap {PkA, PkB}

\* request.data.get("ids", []): lists of at most n ids
RECURSIVE IdLists(_)
IdLists(n) ==
    IF n = 0 THEN {<<>>}
    ELSE IdLists(n - 1) \cup {Append(l, x) : l \in {k \in IdLists(n - 1) : Len(k) = n - 1}, x \in RequestIds}

\* [x for x in ids if x not in permitted_ids]
ForbiddenIds(ids, permitted_ids) ==
    LET NotPermitted(x) == x \notin permitted_ids
    IN  SelectSeq(ids, NotPermitted)

bulk_destroy(ids) ==
    LET objects_to_delete == {o \in get_queryset(objects) : \E i \in 1..Len(ids) : to_python(ids[i]) = o}
    IN  /\ IF Cardinality(objects_to_delete) # Len(ids)
           THEN LET permitted_ids == {str(x) : x \in objects_to_delete}
                IN  /\ bulk' = [ids |-> ids, status |-> 403, forbidden_ids |-> ForbiddenIds(ids, permitted_ids)]
                    /\ objects' = objects
           ELSE /\ objects' = objects \ objects_to_delete
                /\ bulk' = [ids |-> ids, status |-> 204, forbidden_ids |-> <<>>]
        /\ UNCHANGED <<store, sent, req, resp, old_upload_state, emitted, redelivered, handled, workers>>

InitBulk ==
    /\ objects = {PkA, PkB, PkC}
    /\ bulk = NoBulk
    /\ store = <<>>
    /\ sent = <<>>
    /\ req = NoRequest
    /\ resp = Response(0, "")
    /\ old_upload_state = NoState
    /\ emitted = 0
    /\ redelivered = FALSE
    /\ handled = 0
    /\ workers = <<>>

NextBulk == \E ids \in IdLists(MaxIds) : bulk_destroy(ids)

SpecBulk == InitBulk /\ [][NextBulk]_vars

(***************************************************************************)
(* Properties                                                              *)
(***************************************************************************)
\* the entity a key names: its second path segment and its third
Segments(key) ==
    LET slashes == {i \in 1..Len(key) : key[i] = "/"}
        first == CHOOSE i \in slashes : \A j \in slashes : i <= j
        last == CHOOSE i \in slashes : \A j \in slashes : i >= j
        middle == CHOOSE i \in slashes : i # first /\ i # last
    IN  [model_name |-> SubSeq(key, first + 1, middle - 1),
         object_id |-> SubSeq(key, middle + 1, last - 1),
         stamp |-> SubSeq(key, last + 1, last + 10)]

TargetOf(key) == <<Segments(key).model_name, Segments(key).object_id>>

DescribedTransitions ==
    {<<PENDING, PROCESSING>>, <<PROCESSING, READY>>, <<PENDING, ERROR>>, <<PROCESSING, ERROR>>}

C7_BadSignatureAlways403 ==
    (handled > 0 /\ ~validate_signature(req.header)) => resp.status = 403

\* C7: a callback whose signature is bad or missing is answered 403 when its
\* payload passes validation and 400 when it does not; either way it
\* changes no entity and emits no notification.
C7_BadSignatureRejected ==
    [][~validate_signature(req'.header) =>
         /\ resp'.status = (IF ValidKey(req'.key) /\ req'.state \in {PROCESSING, READY, ERROR}
                               /\ ValidSignatureField(req'.signature)
                            THEN 403 ELSE 400)
         /\ store' = store
         /\ sent' = sent]_vars

C7_Witness ==
    /\ resp.status = 403
    /\ req.header = Some("intruder")
    /\ req.state = READY
    /\ TargetOf(req.key) \in DOMAIN store
    /\ store[TargetOf(req.key)] = NewObject
    /\ sent = <<>>

C9_MalformedPayload400 ==
    [][(~ValidKey(req'.key) \/ req'.state \notin {PROCESSING, READY, ERROR}) =>
         /\ resp'.status = 400
         /\ store' = store
         /\ sent' = sent]_vars

C9_Witness ==
    /\ resp.status = 400
    /\ validate_signature(req.header)
    /\ ValidSignatureField(req.signature)
    /\ ValidKey(req.key)
    /\ req.state = PENDING

\* C10: the key owner/model_name/object_id/stamp of every owner UUID, every
\* model_name among video, thumbnail, timedtexttrack and document, every
\* object UUID and every ten-digit stamp is accepted by the key parser and
\* parses back to the same model_name, object_id and stamp.
C10_KeyRoundTrip ==
    \A owner \in {U1, U2}, model_name \in UploadableModels, object_id \in {U1, U2}, stamp \in {Stamp0, Stamp1} :
        req.key = BuildKey(owner, model_name, object_id, stamp) =>
            /\ KEY_REGEX[req.key].matched
            /\ get_key_elements(req.key).model_name = model_name
            /\ get_key_elements(req.key).object_id = object_id
            /\ get_key_elements(req.key).stamp = stamp

\* what follows the ten-digit stamp in a key
SuffixOf(key) ==
    LET last == CHOOSE i \in 1..Len(key) : key[i] = "/" /\ \A j \in (i + 1)..Len(key) : key[j] # "/"
    IN  SubSeq(key, last + 11, Len(key))

\* C11: a READY callback for an entity type that tracks a file extension
\* applies the extension sent in extraParameters unchanged and, when none
\* is sent, the extension the suffix of the key carries.
C11_ExtensionFromKeySuffix ==
    [][(resp'.status = 200 /\ req'.state = READY
          /\ Segments(req'.key).model_name \in {TIMEDTEXTTRACK, DOCUMENT}) =>
         IF "extension" \in DOMAIN req'.extraParameters
         THEN store'[TargetOf(req'.key)].extension = req'.extraParameters.extension
         ELSE SuffixOf(req'.key) # <<>> => store'[TargetOf(req'.key)].extension # None]_vars

\* C13: a callback whose body carries key (matching the pattern), state
\* (PROCESSING, READY or ERROR) and extraParameters, whose signature header
\* is valid and whose key names a stored entity is answered 200 with
\* success true; every callback is answered 200, 404, 403 or 400.
C13_WellFormedCallbackSucceeds ==
    handled > 0 =>
        /\ resp.status \in {200, 404, 403, 400}
        /\ (/\ ValidKey(req.key)
            /\ req.state \in {PROCESSING, READY, ERROR}
            /\ validate_signature(req.header)
            /\ TargetOf(req.key) \in DOMAIN store) => resp = Response(200, "success: true")

\* C12: two concurrent READY callbacks for the same entity, not READY
\* before, are serialized, so that one notification is sent in all.
C12_ConcurrentReadySignalsOnce ==
    (\A w \in Workers : workers[w].req = ReadyCallback /\ workers[w].pc = "done") => Len(sent) = 1

NotPermittedIds(ids, rows) == {ids[i] : i \in {j \in 1..Len(ids) : to_python(ids[j]) \notin get_queryset(rows)}}

\* C14: when some id of the request is outside the caller's queryset,
\* bulk_destroy deletes nothing and answers 403 naming exactly the
\* requested ids that are not permitted.
C14_BulkDestroyAllOrNothing ==
    [][NotPermittedIds(bulk'.ids, objects) # {} =>
         /\ objects' = objects
         /\ bulk'.status = 403
         /\ {bulk'.forbidden_ids[i] : i \in 1..Len(bulk'.forbidden_ids)} = NotPermittedIds(bulk'.ids, objects)]_vars

\* C15: when every id of the request, repeated or not, is in the caller's
\* queryset, bulk_destroy deletes all the rows named and answers 204.
C15_BulkDestroyPermittedIds ==
    [][NotPermittedIds(bulk'.ids, objects) = {} =>
         /\ bulk'.status = 204
         /\ objects' = objects \ {to_python(bulk'.ids[i]) : i \in 1..Len(bulk'.ids)}]_vars

====
